---- MODULE Spec2Model ----
(***************************************************************************)
(* Model of the takeoff simulation scripts.                                *)
(*                                                                         *)
(*   run_takeoff_model.py  - seven tasks, exponent-weighted feedback,      *)
(*                           four startpoint milestones, one endpoint.     *)
(*   takeoff_modeling.py   - five capabilities, simple feedback policy.    *)
(*                                                                         *)
(* Number representation.  The scripts compute with Python floats.  The    *)
(* model computes with fixed-point integers:                               *)
(*   - a capability or threshold c of run_takeoff_model.py is the integer  *)
(*     c * CapScale (1.1 is 110, 0.99 is 99);                              *)
(*   - years_to_cross_human_range y is the integer y * YearScale, that is  *)
(*     a number of days;                                                   *)
(*   - a capability of takeoff_modeling.py is the integer c * SimpleScale; *)
(*   - a ratio (an increase factor, a duration in years) is a record       *)
(*     [num, den];                                                         *)
(*   - a product progress * factor is rounded down to the grid.            *)
(* The marginal-returns exponent is a positive integer.                    *)
(***************************************************************************)
EXTENDS Integers, Sequences, FiniteSets, TLC

\* ------------------------------------------------------------------------
\* Bounds of the model
\* ------------------------------------------------------------------------

\* number of simulations of one batch (N_SIMS is 1000 in the scripts)
NumSims == 2

\* largest sampled marginal_returns_to_intelligence_exponent
MaxExponent == 2

\* the day-stepping loops are cut off after this many days
MaxDays == 24

\* longest list of condition sets given to the evaluator on its own
MaxConditionSets == 2

\* most thresholds in one condition set given to the evaluator on its own
MaxThresholds == 2

\* ------------------------------------------------------------------------
\* Number representation
\* ------------------------------------------------------------------------

\* capability units per 1.0 in run_takeoff_model.py
CapScale == 100

\* units of years_to_cross_human_range per year (a unit is one day)
YearScale == 365

\* capability units per 1.0 in takeoff_modeling.py: one unit is the
\* default progress of one day, 1 / (4 * 365)
SimpleScale == 1460

DaysPerYear == 365

Max(a, b) == IF a >= b THEN a ELSE b

Min3(a, b, c) ==
    IF a <= b /\ a <= c THEN a ELSE IF b <= c THEN b ELSE c

RECURSIVE Pow(_, _)
\* x ** e for an integer exponent e >= 0
Pow(x, e) == IF e = 0 THEN 1 ELSE x * Pow(x, e - 1)

\* progress * factor for a ratio factor = num / den (den > 0), rounded down
\* to the capability grid; the quotient is split so that no intermediate
\* product leaves the 32-bit range
Scaled(progress, factor) ==
    LET q == factor.num \div factor.den
        r == factor.num % factor.den
    IN  progress * q + (progress * r) \div factor.den

\* ------------------------------------------------------------------------
\* run_takeoff_model.py: tasks and parameters
\* ------------------------------------------------------------------------

TaskDescription ==
    << "Scientific research", "Software engineering", "Hardware engineering",
       "Physical engineering", "Strategy", "Hacking", "Persuasion" >>

\* a condition set is a dict; iteration follows insertion order, so it is a
\* sequence of <<description, threshold>> pairs
takeoff_startpoint_conditions ==
    << << <<"Scientific research", 110>>, <<"Software engineering", 99>>,
          <<"Strategy", 95>> >>,
       << <<"Persuasion", 100>> >>,
       << <<"Hacking", 110>> >>,
       << <<"Strategy", 100>> >>,
       << <<"Scientific research", 100>>, <<"Software engineering", 100>>,
          <<"Hardware engineering", 100>> >>,
       << <<"Physical engineering", 100>> >> >>

automating_alignment_startpoint_conditions ==
    << << <<"Scientific research", 105>>, <<"Software engineering", 99>>,
          <<"Strategy", 95>> >> >>

public_awareness_startpoint_conditions ==
    << << <<"Hacking", 110>> >>,
       << <<"Strategy", 100>> >> >>

economic_transformation_startpoint_conditions ==
    << << <<"Strategy", 100>> >>,
       << <<"Scientific research", 100>>, <<"Software engineering", 100>>,
          <<"Hardware engineering", 100>> >>,
       << <<"Physical engineering", 100>> >> >>

takeoff_endpoint_conditions ==
    << << <<"Physical engineering", 300>>, <<"Strategy", 150>> >>,
       << <<"Strategy", 200>>, <<"Persuasion", 200>> >>,
       << <<"Strategy", 200>>, <<"Hacking", 200>> >>,
       << <<"Scientific research", 150>>, <<"Software engineering", 150>>,
          <<"Hardware engineering", 150>>, <<"Physical engineering", 150>>,
          <<"Strategy", 170>>, <<"Hacking", 150>>, <<"Persuasion", 170>> >>,
       << <<"Scientific research", 200>>, <<"Software engineering", 200>>,
          <<"Hardware engineering", 200>>, <<"Physical engineering", 200>>,
          <<"Strategy", 200>> >> >>

\* MadeUpParameters(): the two sampled fields and the condition lists
MadeUpParameters(default_years, exponent) ==
    [ default_years_to_cross_human_range |-> default_years,
      marginal_returns_to_intelligence_exponent |-> exponent,
      takeoff_startpoint_conditions |-> takeoff_startpoint_conditions,
      automating_alignment_startpoint_conditions |->
          automating_alignment_startpoint_conditions,
      public_awareness_startpoint_conditions |->
          public_awareness_startpoint_conditions,
      economic_transformation_startpoint_conditions |->
          economic_transformation_startpoint_conditions,
      takeoff_endpoint_conditions |-> takeoff_endpoint_conditions ]

\* Task(description, ...): one element of task_list
Task(description, capability, years) ==
    [ description |-> description,
      capability |-> capability,
      years_to_cross_human_range |-> years ]

\* Task.default_progress_in_a_day: 1 / (years_to_cross_human_range * 365)
default_progress_in_a_day(task) ==
    (CapScale * YearScale) \div (task.years_to_cross_human_range * DaysPerYear)

\* [t for t in task_list if t.description == desc]: the indices kept
Matching(task_list, desc) ==
    { i \in 1..Len(task_list) : task_list[i].description = desc }

\* index of [t for t in task_list if t.description == desc][0],
\* 0 when the list is empty (Python raises IndexError)
FirstMatch(task_list, desc) ==
    IF Matching(task_list, desc) = {} THEN 0
    ELSE CHOOSE i \in Matching(task_list, desc) :
             \A j \in Matching(task_list, desc) : i <= j

\* ------------------------------------------------------------------------
\* run_takeoff_model.py: have_capabilities_passed_conditions
\* ------------------------------------------------------------------------

RECURSIVE ConditionLoop(_, _, _)
\* the inner loop over condition.items(), from item k on: "True" when the
\* loop ends with condition_met still True, "False" on the break,
\* "IndexError" when the lookup of a description fails
ConditionLoop(task_list, condition, k) ==
    IF k > Len(condition) THEN "True"
    ELSE LET desc == condition[k][1]
             threshold == condition[k][2]
             i == FirstMatch(task_list, desc)
         IN  IF i = 0 THEN "IndexError"
             ELSE IF task_list[i].capability < threshold THEN "False"
             ELSE ConditionLoop(task_list, condition, k + 1)

RECURSIVE ConditionsLoop(_, _, _)
\* the outer loop over conditions, from condition set n on
ConditionsLoop(task_list, conditions, n) ==
    IF n > Len(conditions) THEN "False"
    ELSE LET condition_met == ConditionLoop(task_list, conditions[n], 1)
         IN  IF condition_met = "IndexError" THEN "IndexError"
             ELSE IF condition_met = "True" THEN "True"
             ELSE ConditionsLoop(task_list, conditions, n + 1)

\* variant: every condition set has to be passed
have_capabilities_passed_all_conditions(task_list, conditions) ==
    IF \E n \in 1..Len(conditions) :
           ConditionLoop(task_list, conditions[n], 1) = "IndexError"
    THEN "IndexError"
    ELSE IF \A n \in 1..Len(conditions) :
                ConditionLoop(task_list, conditions[n], 1) = "True"
    THEN "True"
    ELSE "False"

have_capabilities_passed_conditions(task_list, conditions) ==
    ConditionsLoop(task_list, conditions, 1)

\* generate_capabilities_starting_point: the seven tasks in the order of the
\* source, with the drawn starting capabilities and years
generate_capabilities_starting_point(capabilities, years) ==
    [ i \in 1..Len(TaskDescription) |->
        Task(TaskDescription[i], capabilities[i], years[i]) ]

\* ------------------------------------------------------------------------
\* run_takeoff_model.py: capability_increase_step
\* ------------------------------------------------------------------------

\* variant: the factor is not held at 1 from below
increase_factor_no_floor(task_list, made_up_parameters) ==
    LET r == task_list[FirstMatch(task_list, "Scientific research")].capability
        s == task_list[FirstMatch(task_list, "Software engineering")].capability
        h == task_list[FirstMatch(task_list, "Hardware engineering")].capability
        e == made_up_parameters.marginal_returns_to_intelligence_exponent
    IN  IF Min3(r, s, h) > 0
        THEN [ num |-> 2 * Pow(r, e) + Pow(s, e) + Pow(h, e),
               den |-> 4 * Pow(CapScale, e) ]
        ELSE [ num |-> 1, den |-> 1 ]

\* variant: only Scientific research is tested for being positive
increase_factor_research_only(task_list, made_up_parameters) ==
    LET r == task_list[FirstMatch(task_list, "Scientific research")].capability
        s == task_list[FirstMatch(task_list, "Software engineering")].capability
        h == task_list[FirstMatch(task_list, "Hardware engineering")].capability
        e == made_up_parameters.marginal_returns_to_intelligence_exponent
    IN  IF r > 0
        THEN [ num |-> Max(2 * Pow(r, e) + Pow(s, e) + Pow(h, e),
                           4 * Pow(CapScale, e)),
               den |-> 4 * Pow(CapScale, e) ]
        ELSE [ num |-> 1, den |-> 1 ]

\* the increase factor of one day as a ratio; with S = CapScale and
\* e = the exponent, a capability c stands for c / S, so
\*   software_multiplier = (r^e + s^e) / (2 * S^e)
\*   hardware_multiplier = (r^e + h^e) / (2 * S^e)
\*   increase_factor     = max((sw + hw) / (4 * S^e), 1)
increase_factor(task_list, made_up_parameters) ==
    LET research_capability ==
            task_list[FirstMatch(task_list, "Scientific research")].capability
        software_eng_capability ==
            task_list[FirstMatch(task_list, "Software engineering")].capability
        hardware_eng_capability ==
            task_list[FirstMatch(task_list, "Hardware engineering")].capability
        e == made_up_parameters.marginal_returns_to_intelligence_exponent
        one == 4 * Pow(CapScale, e)
        software_multiplier ==
            Pow(research_capability, e) + Pow(software_eng_capability, e)
        hardware_multiplier ==
            Pow(research_capability, e) + Pow(hardware_eng_capability, e)
    IN  IF Min3(research_capability, software_eng_capability,
                hardware_eng_capability) > 0
        THEN [ num |-> Max(software_multiplier + hardware_multiplier, one),
               den |-> one ]
        ELSE [ num |-> 1, den |-> 1 ]

RECURSIVE TaskLoop(_, _, _)
\* for task in task_list: task.capability = task.capability +
\*     task.default_progress_in_a_day * increase_factor
\* after the first i tasks; the loop writes only capabilities, and each
\* once, so the progress of task i is that of the list before the loop
TaskLoop(task_list, factor, i) ==
    IF i = 0 THEN task_list
    ELSE [ TaskLoop(task_list, factor, i - 1) EXCEPT ![i].capability =
               @ + Scaled(default_progress_in_a_day(task_list[i]), factor) ]

RECURSIVE RunningLoop(_, _, _)
\* variant of the loop: the factor is computed anew for every task, from
\* the capabilities as the loop has left them so far
RunningLoop(task_list, made_up_parameters, i) ==
    IF i = 0 THEN task_list
    ELSE LET sofar == RunningLoop(task_list, made_up_parameters, i - 1)
         IN  [ sofar EXCEPT ![i].capability =
                   @ + Scaled(default_progress_in_a_day(sofar[i]),
                              increase_factor(sofar, made_up_parameters)) ]

capability_increase_step_running(task_list, made_up_parameters) ==
    RunningLoop(task_list, made_up_parameters, Len(task_list))

capability_increase_step(task_list, made_up_parameters) ==
    TaskLoop(task_list, increase_factor(task_list, made_up_parameters),
             Len(task_list))

\* ------------------------------------------------------------------------
\* takeoff_modeling.py
\* ------------------------------------------------------------------------

default_yrs_to_cross_human_range == 4

default_progress_in_day ==
    SimpleScale \div (default_yrs_to_cross_human_range * DaysPerYear)

is_takeoff_over(cur, end) ==
    \A i \in 1..Len(cur) : ~(cur[i] < end[i])

\* variant: (tc_cur[0] + 1) * (tc_cur[1] + 1) without the max
tm_increase_factor_no_floor(cur) ==
    [ num |-> (cur[1] + SimpleScale) * (cur[2] + SimpleScale),
      den |-> SimpleScale * SimpleScale ]

\* max((tc_cur[0] + 1) * (tc_cur[1] + 1), 1) as a ratio
tm_increase_factor(cur) ==
    [ num |-> Max((cur[1] + SimpleScale) * (cur[2] + SimpleScale),
                  SimpleScale * SimpleScale),
      den |-> SimpleScale * SimpleScale ]

\* capability_increase_step of takeoff_modeling.py
tm_capability_increase_step(cur) ==
    [ i \in 1..Len(cur) |->
        cur[i] + Scaled(default_progress_in_day, tm_increase_factor(cur)) ]

\* ------------------------------------------------------------------------
\* State
\* ------------------------------------------------------------------------

VARIABLES
    pc,                    \* position in the script that is running
    made_up_parameters,    \* run_takeoff_model.py, main
    task_list,
    days,                  \* both scripts
    any_takeoff_start_day,
    automating_alignment_takeoff_start_day,
    public_awareness_takeoff_start_day,
    economic_transformation_takeoff_start_day,
    any_takeoff_years_taken,
    automating_alignment_takeoff_years_taken,
    public_awareness_takeoff_years_taken,
    economic_transformation_takeoff_years_taken,
    tc_cur,                \* takeoff_modeling.py
    tc_end,
    days_taken,
    conditions_arg,        \* a call of have_capabilities_passed_conditions
    task_list_arg,
    result,
    snapshots,             \* history: the capabilities seen at the top of
                           \* each iteration of the current while loop
    step_calls             \* history: calls of capability_increase_step made
                           \* in the current run

run_vars ==
    << made_up_parameters, task_list, any_takeoff_start_day,
       automating_alignment_takeoff_start_day,
       public_awareness_takeoff_start_day,
       economic_transformation_takeoff_start_day >>

taken_vars ==
    << any_takeoff_years_taken, automating_alignment_takeoff_years_taken,
       public_awareness_takeoff_years_taken,
       economic_transformation_takeoff_years_taken >>

tm_vars == << tc_cur, tc_end, days_taken >>

call_vars == << conditions_arg, task_list_arg, result >>

vars ==
    << pc, days, run_vars, taken_vars, tm_vars, call_vars, snapshots,
       step_calls >>

\* a float days / 365
Years(d) == [ num |-> d, den |-> DaysPerYear ]

\* ------------------------------------------------------------------------
\* Sampled inputs
\* ------------------------------------------------------------------------

\* starting capabilities, np.random.normal(0, starting_capability_stdev) per
\* task: the tasks of one group start ahead, the others start at -0.5
AheadStarts ==
    { << {}, -50 >>,
      << {"Persuasion"}, 100 >>,
      << {"Strategy", "Persuasion"}, 200 >>,
      << {"Scientific research"}, 200 >> }

StartingCapabilities ==
    { [ i \in 1..Len(TaskDescription) |->
          IF TaskDescription[i] \in a[1] THEN a[2] ELSE -50 ] :
      a \in AheadStarts }

\* default_years_to_cross_human_range, np.random.lognormal(...): 4 days
DefaultYears == { 4 }

\* years_to_cross_human_range per task, max(np.random.normal(default, ...),
\* 0.0001): the tasks of one group take half the default
FastGroups == { {}, {"Strategy", "Persuasion"} }

YearsToCross(default_years) ==
    { [ i \in 1..Len(TaskDescription) |->
          IF TaskDescription[i] \in g THEN default_years \div 2
          ELSE default_years ] :
      g \in FastGroups }

\* marginal_returns_to_intelligence_exponent, np.random.lognormal(...)
Exponents == 1..MaxExponent

\* generate_takeoff_start(): five capabilities; the first two start at -3.0
\* or at -0.5, the others at -0.5
TakeoffStarts ==
    { << a, b, -730, -730, -730 >> : a, b \in { -4380, -730 } }

\* generate_takeoff_end(): the end point of each capability, given as its
\* distance from the start
TakeoffEnds(start) ==
    { [ i \in 1..Len(start) |-> start[i] + (IF i = 1 THEN g ELSE h) ] :
      g, h \in { -2, 3, 7 } }

\* ------------------------------------------------------------------------
\* run_takeoff_model.py: main
\* ------------------------------------------------------------------------

NoTasks == << >>

NoParameters == MadeUpParameters(0, 0)

\* the variables of main() before the first simulation, and when another
\* script runs
RunUnset ==
    /\ made_up_parameters = NoParameters
    /\ task_list = NoTasks
    /\ any_takeoff_start_day = 0
    /\ automating_alignment_takeoff_start_day = 0
    /\ public_awareness_takeoff_start_day = 0
    /\ economic_transformation_takeoff_start_day = 0

\* the variables of takeoff_modeling.py before its first simulation
TmUnset ==
    /\ tc_cur = << >>
    /\ tc_end = << >>

CallUnset ==
    /\ conditions_arg = << >>
    /\ task_list_arg = << >>
    /\ result = "None"

LoopUnset ==
    /\ days = 0
    /\ snapshots = << >>
    /\ step_calls = 0

\* lines 284-289: the lists of results are empty
InitRun ==
    /\ pc = "for"
    /\ any_takeoff_years_taken = << >>
    /\ automating_alignment_takeoff_years_taken = << >>
    /\ public_awareness_takeoff_years_taken = << >>
    /\ economic_transformation_takeoff_years_taken = << >>
    /\ days_taken = << >>
    /\ RunUnset /\ TmUnset /\ CallUnset /\ LoopUnset

\* lines 291-301: one more simulation; its parameters and tasks are sampled
NewRun ==
    /\ pc = "for"
    /\ Len(any_takeoff_years_taken) < NumSims
    /\ \E default_years \in DefaultYears, exponent \in Exponents :
         \E capabilities \in StartingCapabilities,
            years \in YearsToCross(default_years) :
           /\ made_up_parameters' = MadeUpParameters(default_years, exponent)
           /\ task_list' =
                  generate_capabilities_starting_point(capabilities, years)
    /\ days' = 0
    /\ any_takeoff_start_day' = 0
    /\ automating_alignment_takeoff_start_day' = 0
    /\ public_awareness_takeoff_start_day' = 0
    /\ economic_transformation_takeoff_start_day' = 0
    /\ snapshots' = << >>
    /\ step_calls' = 0
    /\ pc' = "milestones"
    /\ UNCHANGED << taken_vars, tm_vars, call_vars >>

\* one of the four "if start_day == 0 and have_capabilities_passed_conditions"
StartDay(start_day, conditions) ==
    IF start_day = 0
       /\ have_capabilities_passed_conditions(task_list, conditions) = "True"
    THEN days
    ELSE start_day

\* lines 304-330: the four startpoint milestones
CheckStartpoints ==
    /\ pc = "milestones"
    /\ any_takeoff_start_day' =
           StartDay(any_takeoff_start_day,
                    made_up_parameters.takeoff_startpoint_conditions)
    /\ automating_alignment_takeoff_start_day' =
           StartDay(automating_alignment_takeoff_start_day,
                    made_up_parameters.automating_alignment_startpoint_conditions)
    /\ public_awareness_takeoff_start_day' =
           StartDay(public_awareness_takeoff_start_day,
                    made_up_parameters.public_awareness_startpoint_conditions)
    /\ economic_transformation_takeoff_start_day' =
           StartDay(economic_transformation_takeoff_start_day,
                    made_up_parameters.economic_transformation_startpoint_conditions)
    /\ snapshots' = Append(snapshots, task_list)
    /\ pc' = "endpoint"
    /\ UNCHANGED << made_up_parameters, task_list, days, taken_vars, tm_vars,
                    call_vars, step_calls >>

\* variant: the loop breaks on the any-takeoff startpoint conditions
CheckEndpoint_startpoint ==
    /\ pc = "endpoint"
    /\ pc' = IF have_capabilities_passed_conditions(
                    task_list, made_up_parameters.takeoff_startpoint_conditions)
                = "True"
             THEN "append" ELSE "step"
    /\ UNCHANGED << days, run_vars, taken_vars, tm_vars, call_vars, snapshots,
                    step_calls >>

\* lines 331-334: break when the endpoint is met
CheckEndpoint ==
    /\ pc = "endpoint"
    /\ pc' = IF have_capabilities_passed_conditions(
                    task_list, made_up_parameters.takeoff_endpoint_conditions)
                = "True"
             THEN "append" ELSE "step"
    /\ UNCHANGED << days, run_vars, taken_vars, tm_vars, call_vars, snapshots,
                    step_calls >>

\* variant: the parameters are sampled again before the step
Step_resampling ==
    /\ pc = "step"
    /\ days < MaxDays
    /\ \E exponent \in Exponents :
         made_up_parameters' =
             MadeUpParameters(
                 made_up_parameters.default_years_to_cross_human_range,
                 exponent)
    /\ task_list' = capability_increase_step(task_list, made_up_parameters')
    /\ days' = days + 1
    /\ step_calls' = step_calls + 1
    /\ pc' = "milestones"
    /\ UNCHANGED << any_takeoff_start_day,
                    automating_alignment_takeoff_start_day,
                    public_awareness_takeoff_start_day,
                    economic_transformation_takeoff_start_day,
                    taken_vars, tm_vars, call_vars, snapshots >>

\* lines 335-336
Step ==
    /\ pc = "step"
    /\ days < MaxDays
    /\ task_list' = capability_increase_step(task_list, made_up_parameters)
    /\ days' = days + 1
    /\ step_calls' = step_calls + 1
    /\ pc' = "milestones"
    /\ UNCHANGED << made_up_parameters, any_takeoff_start_day,
                    automating_alignment_takeoff_start_day,
                    public_awareness_takeoff_start_day,
                    economic_transformation_takeoff_start_day,
                    taken_vars, tm_vars, call_vars, snapshots >>

\* variant: the operands of the subtraction are exchanged
TakeoffDays_reversed(start_day) ==
    IF start_day = 0 THEN 0 ELSE start_day - days

\* "0 if start_day == 0 else days - start_day"
TakeoffDays(start_day) ==
    IF start_day = 0 THEN 0 ELSE days - start_day

\* lines 338-363: the four durations of the run are appended
AppendYears ==
    /\ pc = "append"
    /\ any_takeoff_years_taken' =
           Append(any_takeoff_years_taken,
                  Years(TakeoffDays(any_takeoff_start_day)))
    /\ automating_alignment_takeoff_years_taken' =
           Append(automating_alignment_takeoff_years_taken,
                  Years(TakeoffDays(automating_alignment_takeoff_start_day)))
    /\ public_awareness_takeoff_years_taken' =
           Append(public_awareness_takeoff_years_taken,
                  Years(TakeoffDays(public_awareness_takeoff_start_day)))
    /\ economic_transformation_takeoff_years_taken' =
           Append(economic_transformation_takeoff_years_taken,
                  Years(TakeoffDays(economic_transformation_takeoff_start_day)))
    /\ pc' = "for"
    /\ UNCHANGED << days, run_vars, tm_vars, call_vars, snapshots, step_calls >>

\* lines 365-427: the summaries are printed
Report ==
    /\ pc = "for"
    /\ Len(any_takeoff_years_taken) = NumSims
    /\ pc' = "report"
    /\ UNCHANGED << days, run_vars, taken_vars, tm_vars, call_vars, snapshots,
                    step_calls >>

\* ------------------------------------------------------------------------
\* takeoff_modeling.py: the script
\* ------------------------------------------------------------------------

\* lines 5-6
InitTakeoffModeling ==
    /\ pc = "tm_for"
    /\ days_taken = << >>
    /\ any_takeoff_years_taken = << >>
    /\ automating_alignment_takeoff_years_taken = << >>
    /\ public_awareness_takeoff_years_taken = << >>
    /\ economic_transformation_takeoff_years_taken = << >>
    /\ RunUnset /\ TmUnset /\ CallUnset /\ LoopUnset

\* lines 43-48
TmNewRun ==
    /\ pc = "tm_for"
    /\ Len(days_taken) < NumSims
    /\ \E tc_0 \in TakeoffStarts :
         /\ tc_cur' = tc_0
         /\ tc_end' \in TakeoffEnds(tc_0)
    /\ days' = 0
    /\ snapshots' = << >>
    /\ step_calls' = 0
    /\ pc' = "tm_while"
    /\ UNCHANGED << days_taken, run_vars, taken_vars, call_vars >>

\* lines 50-52
TmCheckOver ==
    /\ pc = "tm_while"
    /\ snapshots' = Append(snapshots, tc_cur)
    /\ pc' = IF is_takeoff_over(tc_cur, tc_end) THEN "tm_append" ELSE "tm_step"
    /\ UNCHANGED << days, run_vars, taken_vars, tm_vars, call_vars,
                    step_calls >>

\* lines 53-54
TmStep ==
    /\ pc = "tm_step"
    /\ days < MaxDays
    /\ tc_cur' = tm_capability_increase_step(tc_cur)
    /\ days' = days + 1
    /\ step_calls' = step_calls + 1
    /\ pc' = "tm_while"
    /\ UNCHANGED << tc_end, days_taken, run_vars, taken_vars, call_vars,
                    snapshots >>

\* line 56
TmAppendDays ==
    /\ pc = "tm_append"
    /\ days_taken' = Append(days_taken, days)
    /\ pc' = "tm_for"
    /\ UNCHANGED << days, tc_cur, tc_end, run_vars, taken_vars, call_vars,
                    snapshots, step_calls >>

\* lines 58-61
TmReport ==
    /\ pc = "tm_for"
    /\ Len(days_taken) = NumSims
    /\ pc' = "tm_report"
    /\ UNCHANGED << days, run_vars, taken_vars, tm_vars, call_vars, snapshots,
                    step_calls >>

\* ------------------------------------------------------------------------
\* A call of have_capabilities_passed_conditions on its own
\* ------------------------------------------------------------------------

ArgDescriptions == << "Strategy", "Hacking", "Persuasion" >>

\* task lists holding the first two or all three of the descriptions, each
\* task below or exactly at 1.0
ArgTaskLists ==
    UNION { { [ i \in 1..n |-> Task(ArgDescriptions[i], c[i], 4) ] :
              c \in [ 1..n -> { 90, 100 } ] } :
            n \in { 2, 3 } }

\* the dicts of up to MaxThresholds thresholds, each 1.0, keys distinct
ArgConditionSets ==
    UNION { { c \in [ 1..n -> { << ArgDescriptions[i], 100 >> :
                                 i \in 1..Len(ArgDescriptions) } ] :
                \A j, k \in 1..n : j # k => c[j][1] # c[k][1] } :
            n \in 0..MaxThresholds }

ArgConditions ==
    UNION { [ 1..n -> ArgConditionSets ] : n \in 0..MaxConditionSets }

InitCall ==
    /\ pc = "call"
    /\ task_list_arg \in ArgTaskLists
    /\ conditions_arg \in ArgConditions
    /\ result = "None"
    /\ any_takeoff_years_taken = << >>
    /\ automating_alignment_takeoff_years_taken = << >>
    /\ public_awareness_takeoff_years_taken = << >>
    /\ economic_transformation_takeoff_years_taken = << >>
    /\ days_taken = << >>
    /\ RunUnset /\ TmUnset /\ LoopUnset

\* lines 211-223: the call returns True or False, or raises IndexError
Call ==
    /\ pc = "call"
    /\ result' = have_capabilities_passed_conditions(task_list_arg,
                                                     conditions_arg)
    /\ pc' = IF result' = "IndexError" THEN "raised" ELSE "returned"
    /\ UNCHANGED << days, run_vars, taken_vars, tm_vars, conditions_arg,
                    task_list_arg, snapshots, step_calls >>

\* ------------------------------------------------------------------------
\* Specification
\* ------------------------------------------------------------------------

\* the two scripts
ScriptsInit == InitRun \/ InitTakeoffModeling

ScriptsNext ==
    \/ NewRun
    \/ CheckStartpoints
    \/ CheckEndpoint
    \/ Step
    \/ AppendYears
    \/ Report
    \/ TmNewRun
    \/ TmCheckOver
    \/ TmStep
    \/ TmAppendDays
    \/ TmReport

\* the two scripts and the calls of the evaluator on its own
Init == ScriptsInit \/ InitCall

Next == ScriptsNext \/ Call

Spec == Init /\ [][Next]_vars

\* the scripts are sequential programs: a statement that can run does run
FairSpec == ScriptsInit /\ [][ScriptsNext]_vars /\ WF_vars(ScriptsNext)

TypeOK ==
    /\ pc \in { "for", "milestones", "endpoint", "step", "append", "report",
                "tm_for", "tm_while", "tm_step", "tm_append", "tm_report",
                "call", "returned", "raised" }
    /\ days \in 0..MaxDays
    /\ step_calls \in 0..MaxDays
    /\ result \in { "None", "True", "False", "IndexError" }

\* ------------------------------------------------------------------------
\* Vocabulary of the properties
\* ------------------------------------------------------------------------

\* a condition set is satisfied: every task it names is in the list and has
\* capability >= its threshold
Satisfied(tasks, condition) ==
    \A k \in 1..Len(condition) :
        \E i \in 1..Len(tasks) :
            /\ tasks[i].description = condition[k][1]
            /\ tasks[i].capability >= condition[k][2]

\* OR across the condition sets, AND within a set
AnySatisfied(tasks, conditions) ==
    \E n \in 1..Len(conditions) : Satisfied(tasks, conditions[n])

\* some condition set names a task that is not in the list
NamesMissingTask(tasks, conditions) ==
    \E n \in 1..Len(conditions) :
        \E k \in 1..Len(conditions[n]) :
            \A i \in 1..Len(tasks) :
                tasks[i].description # conditions[n][k][1]

Milestones ==
    { "any_takeoff", "automating_alignment", "public_awareness",
      "economic_transformation" }

MilestoneConditions(m) ==
    CASE m = "any_takeoff" ->
             made_up_parameters.takeoff_startpoint_conditions
      [] m = "automating_alignment" ->
             made_up_parameters.automating_alignment_startpoint_conditions
      [] m = "public_awareness" ->
             made_up_parameters.public_awareness_startpoint_conditions
      [] m = "economic_transformation" ->
             made_up_parameters.economic_transformation_startpoint_conditions

start_day ==
    [ m \in Milestones |->
        CASE m = "any_takeoff" -> any_takeoff_start_day
          [] m = "automating_alignment" ->
                 automating_alignment_takeoff_start_day
          [] m = "public_awareness" -> public_awareness_takeoff_start_day
          [] m = "economic_transformation" ->
                 economic_transformation_takeoff_start_day ]

years_taken ==
    [ m \in Milestones |->
        CASE m = "any_takeoff" -> any_takeoff_years_taken
          [] m = "automating_alignment" ->
                 automating_alignment_takeoff_years_taken
          [] m = "public_awareness" -> public_awareness_takeoff_years_taken
          [] m = "economic_transformation" ->
                 economic_transformation_takeoff_years_taken ]

\* the days of the current run on whose snapshot the conditions were met;
\* snapshots[d + 1] is the snapshot of day d
DaysMet(conditions) ==
    { d \in 0..(Len(snapshots) - 1) :
        AnySatisfied(snapshots[d + 1], conditions) }

\* the earliest of them, -1 when there is none
FirstDayMet(conditions) ==
    IF DaysMet(conditions) = {} THEN -1
    ELSE CHOOSE d \in DaysMet(conditions) :
             \A other \in DaysMet(conditions) : d <= other

\* a run of main() has just appended its durations
RunAppended ==
    pc = "for" /\ Len(any_takeoff_years_taken) > 0

Last(list) == list[Len(list)]

\* ------------------------------------------------------------------------
\* C1
\* ------------------------------------------------------------------------

\* C1: a call of have_capabilities_passed_conditions that returns, returns
\* True exactly when at least one condition set of the list has every named
\* task at or above its threshold; and a call whose condition sets name only
\* tasks of the list does return.
C1_OrOfAnds ==
    /\ pc = "returned" =>
           /\ result \in { "True", "False" }
           /\ result = "True" <=> AnySatisfied(task_list_arg, conditions_arg)
    /\ pc = "raised" => NamesMissingTask(task_list_arg, conditions_arg)

\* two condition sets, only the second one satisfied, and the call has
\* returned True
C1_Witness ==
    /\ pc = "returned"
    /\ result = "True"
    /\ Len(conditions_arg) = 2
    /\ ~Satisfied(task_list_arg, conditions_arg[1])
    /\ Satisfied(task_list_arg, conditions_arg[2])
    /\ Len(conditions_arg[2]) = 2

\* ------------------------------------------------------------------------
\* C2
\* ------------------------------------------------------------------------

\* C2: the duration a run appends for a startpoint milestone is
\* (days - first day met) / 365 when the milestone was met on the snapshot
\* of some day of the run, day 0 included, and 0 when it was met on none.
C2_DurationFromFirstDayMet ==
    RunAppended =>
        \A m \in Milestones :
            Last(years_taken[m]) =
                IF FirstDayMet(MilestoneConditions(m)) = -1
                THEN Years(0)
                ELSE Years(days - FirstDayMet(MilestoneConditions(m)))

\* ------------------------------------------------------------------------
\* C3
\* ------------------------------------------------------------------------

\* C3: a tick sets the start day of a milestone to the current day when its
\* snapshot is the first one of the run to satisfy the milestone, and leaves
\* the start day unchanged otherwise, also once the milestone was met on
\* day 0.
C3_StartDaySetOnce ==
    [][ pc = "milestones" =>
          \A m \in Milestones :
              start_day'[m] =
                  IF /\ FirstDayMet(MilestoneConditions(m)) = -1
                     /\ AnySatisfied(task_list, MilestoneConditions(m))
                  THEN days
                  ELSE start_day[m] ]_vars

\* ------------------------------------------------------------------------
\* C4
\* ------------------------------------------------------------------------

\* C4: when a run leaves its while loop, the day counter equals the number
\* of capability_increase_step calls of the run, the capabilities are those
\* of the last snapshot and meet the endpoint, no earlier snapshot met it,
\* and a run whose first snapshot meets the endpoint ends on day 0; the
\* step is only reached when the endpoint is not met.
C4_StopsAtFirstEndpointDay ==
    /\ pc = "append" =>
           /\ days = step_calls
           /\ Len(snapshots) = days + 1
           /\ task_list = snapshots[days + 1]
           /\ AnySatisfied(task_list,
                           made_up_parameters.takeoff_endpoint_conditions)
           /\ FirstDayMet(made_up_parameters.takeoff_endpoint_conditions)
                  = days
    /\ pc = "step" =>
           ~AnySatisfied(task_list,
                         made_up_parameters.takeoff_endpoint_conditions)
    /\ pc = "tm_append" =>
           /\ days = step_calls
           /\ Len(snapshots) = days + 1
           /\ tc_cur = snapshots[days + 1]
           /\ is_takeoff_over(tc_cur, tc_end)
           /\ \A d \in 1..days : ~is_takeoff_over(snapshots[d], tc_end)
    /\ pc = "tm_step" => ~is_takeoff_over(tc_cur, tc_end)

\* a run has ended after several days, and a run has ended on day 0
C4_Witness ==
    /\ pc = "append"
    /\ Len(any_takeoff_years_taken) = 1
    /\ days = 0
    /\ \E m \in Milestones : Last(years_taken[m]).num > 2

\* ------------------------------------------------------------------------
\* C5
\* ------------------------------------------------------------------------

\* C5: every run that enters its day-stepping loop leaves it: the loop of
\* main() reaches the append of the run's durations, the loop of
\* takeoff_modeling.py the append of the run's days.
C5_EveryRunTerminates ==
    (pc \in { "milestones", "tm_while" }) ~> (pc \in { "append", "tm_append" })

\* a run has left its loop after stepping for several days
C5_Witness ==
    /\ pc \in { "append", "tm_append" }
    /\ days > 3
    /\ step_calls = days

\* ------------------------------------------------------------------------
\* C6
\* ------------------------------------------------------------------------

\* C6: one capability_increase_step raises every capability by at least the
\* daily baseline progress of its task, in both scripts.
C6_NeverBelowBaseline ==
    [][ /\ pc = "step" =>
              \A i \in 1..Len(task_list) :
                  task_list'[i].capability >=
                      task_list[i].capability
                          + default_progress_in_a_day(task_list[i])
        /\ pc = "tm_step" =>
              \A i \in 1..Len(tc_cur) :
                  tc_cur'[i] >= tc_cur[i] + default_progress_in_day ]_vars

\* a step of main() was made from capabilities that are all positive and
\* whose multipliers average below 1
C6_Witness ==
    /\ pc = "milestones"
    /\ days > 0
    /\ LET before == snapshots[Len(snapshots)]
           e == made_up_parameters.marginal_returns_to_intelligence_exponent
       IN  /\ before[1].capability > 0
           /\ before[2].capability > 0
           /\ before[3].capability > 0
           /\ 2 * Pow(before[1].capability, e)
                  + Pow(before[2].capability, e)
                  + Pow(before[3].capability, e) < 4 * Pow(CapScale, e)

\* ------------------------------------------------------------------------
\* C7
\* ------------------------------------------------------------------------

\* C7: a step of main() made while one of the capabilities of Scientific
\* research, Software engineering and Hardware engineering is zero or
\* negative raises every capability by exactly the daily baseline progress
\* of its task.
C7_BaselineWhenGated ==
    [][ ( /\ pc = "step"
          /\ \E i \in 1..3 : task_list[i].capability <= 0 ) =>
            \A i \in 1..Len(task_list) :
                task_list'[i].capability =
                    task_list[i].capability
                        + default_progress_in_a_day(task_list[i]) ]_vars

\* a step was made while Scientific research stood at 2.0 or more and
\* Software engineering at exactly 0
C7_Witness ==
    /\ pc = "milestones"
    /\ days > 0
    /\ snapshots[Len(snapshots)][1].capability >= 200
    /\ snapshots[Len(snapshots)][2].capability = 0

\* ------------------------------------------------------------------------
\* C9
\* ------------------------------------------------------------------------

\* C9: one step of main() adds to every capability the task's own
\* 1 / (years_to_cross_human_range * 365) times one factor, the factor of
\* the capabilities before the step.
C9_SharedFactor ==
    [][ pc = "step" =>
          \A i \in 1..Len(task_list) :
              task_list'[i].capability =
                  task_list[i].capability
                      + Scaled((CapScale * YearScale) \div
                                   (task_list[i].years_to_cross_human_range
                                        * DaysPerYear),
                               increase_factor(task_list, made_up_parameters))
      ]_vars

\* a step was made with a factor above 1 by tasks of different speeds
C9_Witness ==
    /\ pc = "milestones"
    /\ days > 0
    /\ LET before == snapshots[Len(snapshots)]
           factor == increase_factor(before, made_up_parameters)
       IN  /\ factor.num > factor.den
           /\ \E i, j \in 1..Len(before) :
                  before[i].years_to_cross_human_range
                      # before[j].years_to_cross_human_range
           /\ \A i \in 1..Len(before) :
                  task_list[i].capability > before[i].capability

\* ------------------------------------------------------------------------
\* C10
\* ------------------------------------------------------------------------

\* what a tick must leave alone in a task list
SameTasks(before, after) ==
    /\ Len(after) = Len(before)
    /\ \A i \in 1..Len(before) :
           /\ after[i].description = before[i].description
           /\ after[i].years_to_cross_human_range =
                  before[i].years_to_cross_human_range

\* C10: between the start of a run and its end, a step of the loop changes
\* neither the sampled parameters, nor the tasks and their
\* years_to_cross_human_range, nor the lists of results; the milestone checks
\* change no capability, and neither does a call of
\* have_capabilities_passed_conditions on its own.
C10_TicksChangeOnlyRunState ==
    [][ /\ pc \in { "milestones", "endpoint", "step" } =>
              /\ made_up_parameters' = made_up_parameters
              /\ SameTasks(task_list, task_list')
              /\ taken_vars' = taken_vars
        /\ pc \in { "milestones", "endpoint" } => task_list' = task_list
        /\ pc = "call" =>
              /\ task_list_arg' = task_list_arg
              /\ conditions_arg' = conditions_arg ]_vars

\* a second run has stepped for several days and met a milestone
C10_Witness ==
    /\ pc = "endpoint"
    /\ Len(any_takeoff_years_taken) = 1
    /\ days > 3
    /\ any_takeoff_start_day > 0

\* ------------------------------------------------------------------------
\* C8
\* ------------------------------------------------------------------------

\* C8: a call of have_capabilities_passed_conditions whose condition sets
\* name a task that is not in the task list ends in an error, whatever the
\* capabilities and wherever the name stands.
C8_MissingTaskRaises ==
    ( /\ pc \in { "returned", "raised" }
      /\ NamesMissingTask(task_list_arg, conditions_arg) )
        => pc = "raised"

\* ------------------------------------------------------------------------
\* C11
\* ------------------------------------------------------------------------

\* ratio a <= ratio b, both with positive denominators
RatioLeq(a, b) == a.num * b.den <= b.num * a.den

\* C11: every duration a run appends is at least 0 and at most the run's
\* last day divided by 365, and the any-takeoff duration of the run is at
\* least its public-awareness duration and at least its
\* economic-transformation duration.
C11_DurationsOrdered ==
    RunAppended =>
        /\ \A m \in Milestones :
               /\ Last(years_taken[m]).den > 0
               /\ RatioLeq(Years(0), Last(years_taken[m]))
               /\ RatioLeq(Last(years_taken[m]),
                           [ num |-> days, den |-> DaysPerYear ])
        /\ RatioLeq(Last(years_taken["public_awareness"]),
                    Last(years_taken["any_takeoff"]))
        /\ RatioLeq(Last(years_taken["economic_transformation"]),
                    Last(years_taken["any_takeoff"]))

\* a run has appended an any-takeoff duration longer than its positive
\* public-awareness and economic-transformation durations, and shorter than
\* the whole run
C11_Witness ==
    /\ RunAppended
    /\ Last(years_taken["public_awareness"]).num > 0
    /\ Last(years_taken["economic_transformation"]).num > 0
    /\ Last(years_taken["any_takeoff"]).num
           > Last(years_taken["public_awareness"]).num
    /\ Last(years_taken["any_takeoff"]).num
           > Last(years_taken["economic_transformation"]).num
    /\ Last(years_taken["any_takeoff"]).num < days

====
